---- MODULE Spec2Model ----
(***************************************************************************)
(* A model of the habit tracker backend (habit_tracker_backend/app.py):    *)
(* the habit catalog, the ledger of habit_entries rows, and the three      *)
(* authenticated handlers get_habits, save_habits and progress, run by     *)
(* request workers that share the one database.                            *)
(*                                                                         *)
(* The store is modelled as the SQLAlchemy session and the database behave *)
(* towards app.py: rows added or modified by a handler stay in its session *)
(* until db.session.commit(), which applies them in one step or, when a    *)
(* row to insert breaks the constraint user_habit_date_unique, raises and  *)
(* applies nothing; a query sees the committed rows and the session's own. *)
(***************************************************************************)
EXTENDS Integers, Sequences, FiniteSets, TLC

\* ------------------------------------------------------------------ bounds
\* The catalog the model seeds (the program seeds all of default_habits).
NumHabits == 2
\* Requests received in one behaviour.
MaxRequests == 3

\* ------------------------------------------------------- program constants
\* timedelta(days=6) and timedelta(days=29) of progress.
WeeklyDelta == 6
MonthlyDelta == 29

default_habits ==
  << "Wake early", "Hydrate", "Read", "Exercise", "Pray", "Plan day",
     "Sleep Well", "Learn", "Eat Healthy", "Limit screentime", "Journal",
     "Gratitude", "Clean room", "Family time", "Walk" >>

\* The ids of the registered users, which tokens carry.
Users == {1, 2}

\* ------------------------------------------------------------------- dates
\* A date string is [kind, y, m, d]: kind "text" is the text "y-m-d" with
\* those numerals, "junk" any text that is not of that shape, "empty" the
\* empty string and "none" an absent value. A date object is its proleptic
\* Gregorian ordinal, as datetime.date counts it.
IsLeap(y) == (y % 4 = 0) /\ ((y % 100 # 0) \/ (y % 400 = 0))

DaysInMonth(y, m) ==
  IF m = 2 THEN (IF IsLeap(y) THEN 29 ELSE 28)
  ELSE IF m \in {4, 6, 9, 11} THEN 30 ELSE 31

DaysBeforeYear(y) ==
  (y - 1) * 365 + ((y - 1) \div 4) - ((y - 1) \div 100) + ((y - 1) \div 400)

RECURSIVE DaysBeforeMonth(_, _)
DaysBeforeMonth(y, m) ==
  IF m <= 1 THEN 0 ELSE DaysBeforeMonth(y, m - 1) + DaysInMonth(y, m - 1)

ToOrdinal(y, m, d) == DaysBeforeYear(y) + DaysBeforeMonth(y, m) + d

RECURSIVE YearOf(_, _)
YearOf(n, y) == IF DaysBeforeYear(y + 1) < n THEN YearOf(n, y + 1) ELSE y

RECURSIVE MonthOf(_, _, _)
MonthOf(rest, y, m) ==
  IF m < 12 /\ DaysBeforeMonth(y, m + 1) < rest THEN MonthOf(rest, y, m + 1) ELSE m

DateText(y, m, d) == [kind |-> "text", y |-> y, m |-> m, d |-> d]
NoDate == [kind |-> "none", y |-> 0, m |-> 0, d |-> 0]
EmptyDate == [kind |-> "empty", y |-> 0, m |-> 0, d |-> 0]
JunkDate == [kind |-> "junk", y |-> 0, m |-> 0, d |-> 0]

\* date.isoformat(): the text of an ordinal.
isoformat(n) ==
  LET y == YearOf(n, (n \div 366) + 1)
      rest == n - DaysBeforeYear(y)
      m == MonthOf(rest, y, 1)
  IN DateText(y, m, rest - DaysBeforeMonth(y, m))

\* parse_date: strptime(date_str, "%Y-%m-%d").date(), or ValueError.
parse_date(date_str) ==
  IF /\ date_str.kind = "text"
     /\ date_str.y \in 1..9999
     /\ date_str.m \in 1..12
     /\ date_str.d \in 1..DaysInMonth(date_str.y, date_str.m)
  THEN [ok |-> TRUE, date |-> ToOrdinal(date_str.y, date_str.m, date_str.d)]
  ELSE [ok |-> FALSE, date |-> 0]

\* Python's truth value of a date string: None and "" are false.
DateGiven(date_str) == date_str.kind \in {"text", "junk"}

\* date.today() on the server.
today == ToOrdinal(2024, 3, 1)

\* -------------------------------------------------------- request payloads
\* A JSON object of completions is a set of entries [form, id, val] with at
\* most one entry per key (form, id): form "str" is the key str(id), form
\* "int" the key id itself. The completions field of a payload is
\* [kind, map]: kind "dict" for an object, "none" when the field is absent
\* and "list" for a JSON value that is no object.
StrKey(id) == [form |-> "str", id |-> id]
IntKey(id) == [form |-> "int", id |-> id]

\* Get, were the lookup to default to True: completions.get(key, True).
GetOrTrue(map, key) ==
  IF \E e \in map : e.form = key.form /\ e.id = key.id
  THEN (CHOOSE e \in map : e.form = key.form /\ e.id = key.id).val
  ELSE "true"

\* dict.get(key): the value under the key, or None ("null").
Get(map, key) ==
  IF \E e \in map : e.form = key.form /\ e.id = key.id
  THEN (CHOOSE e \in map : e.form = key.form /\ e.id = key.id).val
  ELSE "null"

\* bool(v) of a JSON value.
Truthy(v) == v \in {"true", "1"}

\* a or b
PyOr(a, b) == IF Truthy(a) THEN a ELSE b

Dict(map) == [kind |-> "dict", map |-> map]
NoCompletions == [kind |-> "none", map |-> {}]
ListCompletions == [kind |-> "list", map |-> {}]

\* isinstance(completions, dict)
IsDict(completions) == completions.kind = "dict"

NoPeriod == [kind |-> "none", text |-> ""]
PeriodText(s) == [kind |-> "text", text |-> s]

\* str.lower() on the period texts the model sends.
Lower(s) ==
  IF s = "Weekly" THEN "weekly" ELSE IF s = "MONTHLY" THEN "monthly" ELSE s

\* ------------------------------------------------------------------- state
VARIABLES
  habits,   \* the habits table: a set of [id, name]
  ledger,   \* the committed habit_entries rows:
            \* [user_id, habit_id, date, completed, n], n the rank of the
            \* row among the rows of its (user_id, habit_id, date)
  sess,     \* per worker: the request in hand, the handler's position and
            \* locals, its session's pending rows, and its response
  nReq      \* requests received so far

vars == << habits, ledger, sess, nReq >>

Workers == DOMAIN sess

\* ------------------------------------------------------------- the catalog
\* seed_habits: fill an empty habits table from default_habits; ids are the
\* autoincrement keys 1, 2, ...
seed_habits(hs) ==
  IF Cardinality(hs) = 0
  THEN {[id |-> i, name |-> default_habits[i]] : i \in 1..NumHabits}
  ELSE hs

\* Habit.query.order_by(Habit.id).all()
RECURSIVE OrderById(_)
OrderById(hs) ==
  IF hs = {} THEN << >>
  ELSE LET first == CHOOSE h \in hs : \A g \in hs : h.id <= g.id
       IN << first >> \o OrderById(hs \ {first})

\* -------------------------------------------------------------- the ledger
Key(r) == << r.user_id, r.habit_id, r.date >>
RowId(r) == << r.user_id, r.habit_id, r.date, r.n >>

\* A row the session adds gets its place in the table when it is inserted.
Stamp(rows, new) ==
  {[user_id |-> a.user_id, habit_id |-> a.habit_id, date |-> a.date,
    completed |-> a.completed,
    n |-> Cardinality({b \in rows : Key(b) = Key(a)})] : a \in new}

\* The rows a query of a session sees: the committed rows and the rows the
\* session itself has added (autoflush), never another session's pending rows.
Visible(committed, own) == committed \cup Stamp(committed, own)

\* HabitEntry.query.filter_by(user_id=..., date=...).all()
EntriesOn(view, user_id, date) ==
  {r \in view : r.user_id = user_id /\ r.date = date}

\* EntriesOf, were the lookup never to find the entry.
EntriesOfNone(view, user_id, habit_id, date) == {}

\* EntriesOf, were the lookup to leave the date out of its filter.
EntriesOfAnyDate(view, user_id, habit_id, date) ==
  {r \in view : r.user_id = user_id /\ r.habit_id = habit_id}

\* HabitEntry.query.filter_by(user_id=..., habit_id=..., date=...)
EntriesOf(view, user_id, habit_id, date) ==
  {r \in view : r.user_id = user_id /\ r.habit_id = habit_id /\ r.date = date}

\* .first() of a non-empty result: the oldest row.
First(rows) == CHOOSE r \in rows : \A q \in rows : r.n <= q.n

\* {entry.habit_id: entry for entry in rows}.get(habit_id): the last row of
\* the habit in the result, when there is one.
HasEntry(rows, habit_id) == \E r \in rows : r.habit_id = habit_id
EntryOf(rows, habit_id) ==
  LET mine == {r \in rows : r.habit_id = habit_id}
  IN CHOOSE r \in mine : \A q \in mine : q.n <= r.n

\* UniqueOk, were the table declared without its constraint.
UniqueOff(rows, new) == TRUE

\* The constraint user_habit_date_unique, on inserting `new` into `rows`.
UniqueOk(rows, new) ==
  \A a \in new : ~ \E b \in rows : Key(b) = Key(a)

\* What a session's flush writes: INSERT the added rows, UPDATE the modified
\* ones (by primary key).
Apply(rows, new, upd) ==
  {IF \E u \in upd : u.row = RowId(r)
   THEN [r EXCEPT !.completed = (CHOOSE u \in upd : u.row = RowId(r)).completed]
   ELSE r : r \in rows}
  \cup Stamp(rows, new)

\* ---------------------------------------------------------------- handlers
\* A handler's result is [resp, queries]: the response and the number of
\* queries it sent to the store.

\* Rejection, were the handler to read the catalog before it validates.
RejectionAfterQuery(error) ==
  [resp |-> [status |-> 400, error |-> error], queries |-> 1]

\* return {"error": ...}, 400, ahead of the handler's first query.
Rejection(error) ==
  [resp |-> [status |-> 400, error |-> error], queries |-> 0]

\* get_habits, were it to walk the day's entries in place of the catalog.
get_habits_of_entries(user_id, date_str, hs, view) ==
  LET parsed == parse_date(date_str)
      target_date == IF DateGiven(date_str) THEN parsed.date ELSE today
      all == OrderById(hs)
      entries == EntriesOn(view, user_id, target_date)
      result == [i \in 1..Len(all) |->
                   [id |-> all[i].id, name |-> all[i].name,
                    completed |-> IF HasEntry(entries, all[i].id)
                                  THEN EntryOf(entries, all[i].id).completed
                                  ELSE FALSE]]
  IN IF DateGiven(date_str) /\ ~ parsed.ok
     THEN [resp |-> [status |-> 400,
                     error |-> "Date must be in YYYY-MM-DD format"],
           queries |-> 0]
     ELSE [resp |-> [status |-> 200, date |-> isoformat(target_date),
                     habits |-> SelectSeq(result,
                                          LAMBDA x : HasEntry(entries, x.id))],
           queries |-> 2]

\* get_habits
get_habits(user_id, date_str, hs, view) ==
  LET parsed == parse_date(date_str)
      target_date == IF DateGiven(date_str) THEN parsed.date ELSE today
      all == OrderById(hs)
      entries == EntriesOn(view, user_id, target_date)
      result == [i \in 1..Len(all) |->
                   [id |-> all[i].id, name |-> all[i].name,
                    completed |-> IF HasEntry(entries, all[i].id)
                                  THEN EntryOf(entries, all[i].id).completed
                                  ELSE FALSE]]
  IN IF DateGiven(date_str) /\ ~ parsed.ok
     THEN Rejection("Date must be in YYYY-MM-DD format")
     ELSE [resp |-> [status |-> 200, date |-> isoformat(target_date),
                     habits |-> result],
           queries |-> 2]

\* round(completed_days / total_days * 100, 2), in hundredths. For the
\* window lengths 7 and 30 the quotient is never half way between two
\* hundredths, so rounding to nearest is the whole of round().
Round2(completed_days, total_days) ==
  (completed_days * 20000 + total_days) \div (2 * total_days)

\* One day of progress' loop: every habit's total_days grows by one, and its
\* completed_days when the day's entries hold a completed one. habit_stats
\* is the set of its values, one [id, completed_days, total_days] per habit.
CountDay(stats, all, entries) ==
  {[id |-> st.id,
    completed_days |->
      st.completed_days
        + (IF HasEntry(entries, st.id) /\ EntryOf(entries, st.id).completed
           THEN 1 ELSE 0),
    total_days |-> st.total_days + 1] :
     st \in {x \in stats : \E i \in 1..Len(all) : all[i].id = x.id}}
  \cup {x \in stats : ~ \E i \in 1..Len(all) : all[i].id = x.id}

\* StartDate, were the window to reach back a whole week or thirty days.
StartDateLong(period, end_date) ==
  IF period = "weekly" THEN end_date - (WeeklyDelta + 1)
  ELSE end_date - (MonthlyDelta + 1)

\* start_date of progress, once the period is known to be valid.
StartDate(period, end_date) ==
  IF period = "weekly" THEN end_date - WeeklyDelta ELSE end_date - MonthlyDelta

\* Completed, were only the string key looked up.
CompletedByStrKey(map, id) == Truthy(Get(map, StrKey(id)))

\* completed = bool(completions.get(str(habit.id)) or completions.get(habit.id))
Completed(map, id) == Truthy(PyOr(Get(map, StrKey(id)), Get(map, IntKey(id))))

\* (completed_count / len(habits) * 100) if habits else 0, kept exact as the
\* fraction << numerator, denominator >>.
Percentage(completed_count, n) ==
  IF n > 0 THEN << completed_count * 100, n >> ELSE << 0, 1 >>

\* db.session.commit() of a session holding the added rows `new` and the
\* modifications `upd`: everything is written, or, when an added row breaks
\* user_habit_date_unique, the database raises and nothing is.
Commit(rows, new, upd) ==
  IF UniqueOk(rows, new)
  THEN [ok |-> TRUE, rows |-> Apply(rows, new, upd)]
  ELSE [ok |-> FALSE, rows |-> rows]

\* Published, were each pass of the loop to commit what it wrote.
PublishedAtOnce(rows, new, upd) == Apply(rows, new, upd)

\* The committed rows once a pass of save_habits' loop has flushed its
\* session: as they were, the transaction staying open until the commit that
\* follows the loop.
Published(rows, new, upd) == rows

\* ---------------------------------------------------------------- requests
NoRequest ==
  [op |-> "none", user_id |-> 0, date |-> NoDate,
   completions |-> NoCompletions, period |-> NoPeriod]
SaveRequest(u, d, c) ==
  [op |-> "save", user_id |-> u, date |-> d, completions |-> c,
   period |-> NoPeriod]
ReadRequest(u, d) ==
  [op |-> "read", user_id |-> u, date |-> d, completions |-> NoCompletions,
   period |-> NoPeriod]
AggregateRequest(u, p, d) ==
  [op |-> "aggregate", user_id |-> u, date |-> d,
   completions |-> NoCompletions, period |-> p]

NoResponse == [status |-> 0]
NoPrior == [given |-> FALSE, ledger |-> {}, percentage |-> << 0, 1 >>]

\* A worker between requests.
Idle ==
  [pc |-> "idle", req |-> NoRequest, target_date |-> 0, all |-> << >>,
   i |-> 0, new |-> {}, upd |-> {}, completed_count |-> 0,
   period |-> "", start_date |-> 0, end_date |-> 0, current_date |-> 0,
   stats |-> {}, queries |-> 0, resp |-> NoResponse, prior |-> NoPrior]

\* The worker's state once its handler has returned (or raised): the session
\* is gone (Flask-SQLAlchemy removes it at the end of the request, which rolls
\* back what was not committed).
Done(s, resp, queries) ==
  [Idle EXCEPT !.pc = "done", !.req = s.req, !.resp = resp,
               !.queries = queries, !.prior = s.prior]

\* The dates, payloads and periods the requests of the model carry: two
\* neighbouring days to save on, and windows that end on, begin on and miss
\* each of them.
SaveDates == {DateText(2024, 2, 29), DateText(2024, 3, 1)}
BadDates == {DateText(2024, 2, 30), DateText(2024, 13, 1), JunkDate}
EndDates ==
  {DateText(2024, 2, 29), DateText(2024, 3, 6), DateText(2024, 3, 7),
   DateText(2024, 3, 29), DateText(2024, 3, 30)}
Periods ==
  {NoPeriod, PeriodText("weekly"), PeriodText("monthly"),
   PeriodText("MONTHLY"), PeriodText("yearly")}

\* Ids a payload can name: the catalog's and one that is in no catalog.
PayloadIds == 1..(NumHabits + 1)
Entry(form, id, val) == [form |-> form, id |-> id, val |-> val]
\* The JSON objects sent: the empty one, every single entry, every pair that
\* names one id in both forms, and every pair of catalog ids completed.
Maps ==
  {{}}
  \cup {{Entry(f, id, v)} :
          f \in {"str", "int"}, id \in PayloadIds, v \in {"true", "false"}}
  \cup {{Entry("str", id, v), Entry("int", id, x)} :
          id \in PayloadIds, v \in {"true", "false"}, x \in {"true", "false"}}
  \cup {{Entry("str", id, "true"), Entry("str", jd, "true")} :
          id \in 1..NumHabits, jd \in 1..NumHabits}
\* The objects of contending saves: nothing completed, the first habit
\* completed, every habit completed.
PlainMaps ==
  {{}, {Entry("str", 1, "true")},
   {Entry("str", id, "true") : id \in 1..NumHabits}}

\* One worker: every kind of request, valid and invalid.
AllRequests ==
  {SaveRequest(u, d, Dict(m)) : u \in Users, d \in SaveDates, m \in Maps}
  \cup {SaveRequest(1, d, Dict({})) : d \in BadDates \cup {NoDate, EmptyDate}}
  \cup {SaveRequest(u, DateText(2024, 3, 1), c) :
          u \in Users, c \in {NoCompletions, ListCompletions}}
  \cup {ReadRequest(u, d) :
          u \in Users, d \in SaveDates \cup {NoDate, JunkDate}}
  \cup {AggregateRequest(u, p, d) :
          u \in Users, p \in Periods, d \in EndDates \cup {NoDate, JunkDate}}

\* Several workers: the requests that can contend for the same rows.
ContendingRequests ==
  {SaveRequest(u, d, Dict(m)) : u \in Users, d \in SaveDates, m \in PlainMaps}
  \cup {ReadRequest(u, d) : u \in Users, d \in SaveDates}
  \cup {AggregateRequest(u, PeriodText("weekly"), DateText(2024, 3, 6)) :
          u \in Users}

Requests ==
  IF Cardinality(Workers) = 1 THEN AllRequests ELSE ContendingRequests

\* ----------------------------------------------------------------- actions
\* save_habits up to its loop: the payload is validated, then the catalog is
\* read.
SaveBegin(s, r) ==
  LET parsed == parse_date(r.date)
      missing ==
        Rejection("Invalid payload. 'date' and 'completions' are required.")
      malformed == Rejection("Date must be in YYYY-MM-DD format")
  IN IF ~ DateGiven(r.date) \/ ~ IsDict(r.completions)
     THEN Done([s EXCEPT !.req = r], missing.resp, missing.queries)
     ELSE IF ~ parsed.ok
     THEN Done([s EXCEPT !.req = r], malformed.resp, malformed.queries)
     ELSE [s EXCEPT !.pc = "save_loop", !.req = r, !.resp = NoResponse,
                    !.target_date = parsed.date, !.all = OrderById(habits),
                    !.i = 1, !.new = {}, !.upd = {}, !.completed_count = 0,
                    !.queries = 1]

\* progress up to its loop: the end date and the period are validated, the
\* window is set, then the catalog is read and habit_stats built.
ProgressBegin(s, r) ==
  LET period == IF r.period.kind = "none" THEN "weekly"
                ELSE Lower(r.period.text)
      parsed == parse_date(r.date)
      end_date == IF DateGiven(r.date) THEN parsed.date ELSE today
      start_date == StartDate(period, end_date)
      malformed == Rejection("Date must be in YYYY-MM-DD format")
      unknown == Rejection("Period must be 'weekly' or 'monthly'.")
  IN IF DateGiven(r.date) /\ ~ parsed.ok
     THEN Done([s EXCEPT !.req = r], malformed.resp, malformed.queries)
     ELSE IF period \notin {"weekly", "monthly"}
     THEN Done([s EXCEPT !.req = r], unknown.resp, unknown.queries)
     ELSE [s EXCEPT !.pc = "progress_loop", !.req = r, !.resp = NoResponse,
                    !.period = period, !.start_date = start_date,
                    !.end_date = end_date, !.current_date = start_date,
                    !.all = OrderById(habits),
                    !.stats = {[id |-> h.id, completed_days |-> 0,
                                total_days |-> 0] : h \in habits},
                    !.queries = 1]

\* One pass of progress' while loop, for the day s.current_date, on the rows
\* `rows` committed by now.
ProgressDay(s, rows) ==
  [s EXCEPT
     !.stats = CountDay(@, s.all,
                        EntriesOn(Visible(rows, {}), s.req.user_id,
                                  s.current_date)),
     !.current_date = @ + 1,
     !.queries = @ + 1]

\* progress after its loop: the percentages and the response.
ProgressEnd(s) ==
  LET StatsOf(id) == CHOOSE st \in s.stats : st.id = id
  IN [status |-> 200, start_date |-> isoformat(s.start_date),
      end_date |-> isoformat(s.end_date), period |-> s.period,
      habits |->
        [i \in 1..Len(s.all) |->
           [id |-> s.all[i].id, name |-> s.all[i].name,
            completed_days |-> StatsOf(s.all[i].id).completed_days,
            total_days |-> StatsOf(s.all[i].id).total_days,
            percentage |->
              IF StatsOf(s.all[i].id).total_days > 0
              THEN Round2(StatsOf(s.all[i].id).completed_days,
                          StatsOf(s.all[i].id).total_days)
              ELSE 0]]]

\* One pass of save_habits' loop, for habit s.all[s.i], on the rows `rows`
\* committed by now: the entry is looked up and modified, or a new one added.
SaveIter(s, rows) ==
  LET habit == s.all[s.i]
      completed == Completed(s.req.completions.map, habit.id)
      found == EntriesOf(Visible(rows, s.new), s.req.user_id, habit.id,
                         s.target_date)
      entry == First(found)
  IN [s EXCEPT
        !.upd = IF found # {} /\ entry.completed # completed
                THEN {u \in @ : u.row # RowId(entry)}
                       \cup {[row |-> RowId(entry), completed |-> completed]}
                ELSE @,
        !.new = IF found = {}
                THEN @ \cup {[user_id |-> s.req.user_id, habit_id |-> habit.id,
                              date |-> s.target_date, completed |-> completed]}
                ELSE @,
        !.completed_count = IF completed THEN @ + 1 ELSE @,
        !.queries = @ + 1,
        !.i = @ + 1]

\* A worker takes a request off the wire and runs its handler: get_habits to
\* its response, save_habits and progress to the start of their loops.
Receive(w) ==
  /\ sess[w].pc = "idle"
  /\ nReq < MaxRequests
  /\ \E r \in Requests :
       LET got == get_habits(r.user_id, r.date, habits, Visible(ledger, {}))
       IN sess' = [sess EXCEPT ![w] =
                     IF r.op = "save" THEN SaveBegin(Idle, r)
                     ELSE IF r.op = "aggregate" THEN ProgressBegin(Idle, r)
                     ELSE Done([Idle EXCEPT !.req = r], got.resp, got.queries)]
  /\ nReq' = nReq + 1
  /\ UNCHANGED << habits, ledger >>

\* The client sends the request it has just had answered once more.
Retry(w) ==
  /\ sess[w].pc = "done"
  /\ sess[w].req.op = "save"
  /\ sess[w].resp.status = 200
  /\ ~ sess[w].prior.given
  /\ nReq < MaxRequests
  /\ sess' = [sess EXCEPT ![w] =
                SaveBegin([Idle EXCEPT !.prior =
                             [given |-> TRUE, ledger |-> ledger,
                              percentage |-> sess[w].resp.percentage]],
                          sess[w].req)]
  /\ nReq' = nReq + 1
  /\ UNCHANGED << habits, ledger >>

\* One pass of the loop. Its query flushes the session first: a row added
\* earlier that another request has committed meanwhile raises IntegrityError
\* out of the handler.
SaveStep(w) ==
  /\ sess[w].pc = "save_loop"
  /\ sess[w].i <= Len(sess[w].all)
  /\ IF UniqueOk(ledger, sess[w].new)
     THEN LET s == SaveIter(sess[w], ledger)
          IN /\ sess' = [sess EXCEPT ![w] = s]
             /\ ledger' = Published(ledger, s.new, s.upd)
     ELSE /\ sess' = [sess EXCEPT ![w] =
                        Done(sess[w],
                             [status |-> 500, error |-> "IntegrityError"],
                             sess[w].queries)]
          /\ ledger' = ledger
  /\ UNCHANGED << habits, nReq >>

\* db.session.commit() after the loop, and the response.
SaveCommit(w) ==
  /\ sess[w].pc = "save_loop"
  /\ sess[w].i > Len(sess[w].all)
  /\ LET c == Commit(ledger, sess[w].new, sess[w].upd)
     IN /\ ledger' = c.rows
        /\ sess' = [sess EXCEPT ![w] =
                      IF c.ok
                      THEN Done(sess[w],
                                [status |-> 200, message |-> "Habits saved.",
                                 percentage |->
                                   Percentage(sess[w].completed_count,
                                              Len(sess[w].all))],
                                sess[w].queries)
                      ELSE Done(sess[w],
                                [status |-> 500, error |-> "IntegrityError"],
                                sess[w].queries)]
  /\ UNCHANGED << habits, nReq >>

\* One pass of progress' loop: the day's entries are read and counted.
ProgressStep(w) ==
  /\ sess[w].pc = "progress_loop"
  /\ sess[w].current_date <= sess[w].end_date
  /\ sess' = [sess EXCEPT ![w] = ProgressDay(sess[w], ledger)]
  /\ UNCHANGED << habits, ledger, nReq >>

\* The loop of progress is over: the response.
ProgressReturn(w) ==
  /\ sess[w].pc = "progress_loop"
  /\ sess[w].current_date > sess[w].end_date
  /\ sess' = [sess EXCEPT ![w] =
                Done(sess[w], ProgressEnd(sess[w]), sess[w].queries)]
  /\ UNCHANGED << habits, ledger, nReq >>

\* The response has gone out; the worker is free again.
Return(w) ==
  /\ sess[w].pc = "done"
  /\ sess' = [sess EXCEPT ![w] = Idle]
  /\ UNCHANGED << habits, ledger, nReq >>

Next ==
  \/ \E w \in Workers : Receive(w)
  \/ \E w \in Workers : Retry(w)
  \/ \E w \in Workers : SaveStep(w)
  \/ \E w \in Workers : SaveCommit(w)
  \/ \E w \in Workers : ProgressStep(w)
  \/ \E w \in Workers : ProgressReturn(w)
  \/ \E w \in Workers : Return(w)

\* initialize_database has run: the tables exist and the catalog is seeded.
InitWith(W) ==
  /\ habits = seed_habits({})
  /\ ledger = {}
  /\ sess = [w \in W |-> Idle]
  /\ nReq = 0

\* One worker serving one request at a time.
Init == InitWith({1})
Spec == Init /\ [][Next]_vars

\* Two workers on the one database.
InitConc == InitWith({1, 2})
SpecConc == InitConc /\ [][Next]_vars

\* ------------------------------------------------------------- the claims
CatalogIds == {h.id : h \in habits}
Finished(w) == sess[w].pc = "done"
Malformed(date_str) == DateGiven(date_str) /\ ~ parse_date(date_str).ok
\* The date a request is about: the one it gives, or the server's today.
DateOf(date_str) ==
  IF DateGiven(date_str) THEN parse_date(date_str).date ELSE today
\* The period a request asks for.
PeriodOf(period_arg) ==
  IF period_arg.kind = "none" THEN "weekly" ELSE Lower(period_arg.text)
\* The payload holds a truthy value under the id, in either form.
Expected(map, id) == \E e \in map : e.id = id /\ e.val = "true"
RowsFor(rows, user_id, date) ==
  {r \in rows : r.user_id = user_id /\ r.date = date}
\* The ledger holds a completed entry of the habit for the user on the day.
CompletedOn(rows, user_id, habit_id, date) ==
  \E r \in rows :
    r.user_id = user_id /\ r.habit_id = habit_id /\ r.date = date /\ r.completed
\* Worker w's step is the commit that ends a save with a 200.
Commits(w) ==
  /\ sess[w].pc = "save_loop"
  /\ sess'[w].pc = "done"
  /\ sess'[w].resp.status = 200
\* Worker w's step is a step of get_habits or of progress.
Reads(w) ==
  /\ sess'[w] # sess[w]
  /\ sess'[w].req.op \in {"read", "aggregate"}
\* The habit's count of completed days in the statistics `stats`.
CompletedDays(stats, id) == (CHOOSE st \in stats : st.id = id).completed_days

\* C1: in every reachable state of the ledger, whatever saves have run and
\* however two workers' saves interleave, no two rows share a
\* (user_id, habit_id, date).
OneEntryPerKey ==
  \A a \in ledger : \A b \in ledger : Key(a) = Key(b) => a = b

\* C1's case: two saves contended for a day; one was refused and the day's
\* rows are there.
ContendedDayStored ==
  \E w \in Workers :
    /\ Finished(w)
    /\ sess[w].resp.status = 500
    /\ RowsFor(ledger, sess[w].req.user_id, DateOf(sess[w].req.date)) # {}

\* C2: no save ever answers with the conflict raised by the uniqueness
\* constraint: a save that loses the race retries as an update and succeeds.
ConflictNeverSurfaces ==
  \A w \in Workers :
    (Finished(w) /\ sess[w].req.op = "save") => sess[w].resp.status # 500

SaveThenRead ==
  \A w \in Workers :
    (Finished(w) /\ sess[w].req.op = "save" /\ sess[w].resp.status = 200) =>
      LET r == sess[w].req
          read == get_habits(r.user_id, r.date, habits, Visible(ledger, {})).resp
      IN /\ read.status = 200
         /\ Len(read.habits) = Cardinality(habits)
         /\ \A i \in 1..Len(read.habits) :
              read.habits[i].completed
                = Expected(r.completions.map, read.habits[i].id)
         /\ \A row \in ledger : row.habit_id \in CatalogIds

\* C4's case: a save whose payload names habit 1 falsy by string key and
\* truthy by native key, and an id that is in no catalog, has succeeded.
MixedPayloadSaved ==
  \E w \in Workers :
    /\ Finished(w)
    /\ sess[w].resp.status = 200
    /\ sess[w].req.completions.map
         = {Entry("str", 1, "false"), Entry("int", 1, "true")}
    /\ CompletedOn(ledger, sess[w].req.user_id, 1, DateOf(sess[w].req.date))

\* C5: a save sent a second time with the same user, date and payload
\* succeeds like the first, returns the same percentage and leaves the
\* ledger as the first call left it.
RetryIsIdempotent ==
  \A w \in Workers :
    (Finished(w) /\ sess[w].prior.given) =>
      /\ sess[w].resp.status = 200
      /\ sess[w].resp.percentage = sess[w].prior.percentage
      /\ ledger = sess[w].prior.ledger

\* C5's case: the second of two identical saves has been answered, with a
\* habit completed.
SecondSaveAnswered ==
  \E w \in Workers :
    /\ Finished(w)
    /\ sess[w].prior.given
    /\ \E r \in ledger : r.completed

\* C6 as stated: a save with an empty mapping, or with the mapping absent,
\* sets every catalog habit to not completed and returns percentage 0.
SavedEmpty(w) ==
  /\ sess[w].resp.status = 200
  /\ sess[w].resp.percentage[1] = 0
  /\ \A id \in CatalogIds :
       LET rows == EntriesOf(ledger, sess[w].req.user_id, id,
                             DateOf(sess[w].req.date))
       IN rows # {} /\ \A r \in rows : ~ r.completed
EmptyOrAbsentMappingClearsDay ==
  \A w \in Workers :
    ( /\ Finished(w)
      /\ sess[w].req.op = "save"
      /\ parse_date(sess[w].req.date).ok
      /\ sess[w].req.completions \in {Dict({}), NoCompletions} )
    => SavedEmpty(w)

\* C6, amended: a save with an empty mapping sets every catalog habit to not
\* completed for the user and date and returns percentage 0; a save with the
\* mapping absent is refused with a 400 ahead of any query.
EmptyMappingClearsDay ==
  \A w \in Workers :
    (Finished(w) /\ sess[w].req.op = "save" /\ parse_date(sess[w].req.date).ok) =>
      /\ sess[w].req.completions = Dict({}) => SavedEmpty(w)
      /\ sess[w].req.completions = NoCompletions =>
           sess[w].resp.status = 400 /\ sess[w].queries = 0

\* C6's case: a save with the empty mapping has succeeded on a day, other
\* days holding completed habits.
EmptyMappingSaved ==
  \E w \in Workers :
    /\ Finished(w)
    /\ sess[w].req.op = "save"
    /\ sess[w].req.completions = Dict({})
    /\ sess[w].resp.status = 200
    /\ \E r \in ledger : r.completed

\* C7: a read answers with one item per catalog habit, in ascending id
\* order, and reports a habit without an entry for the user and date as not
\* completed, whatever the ledger holds.
ReadIsTotal ==
  \A w \in Workers :
    (Finished(w) /\ sess[w].req.op = "read" /\ ~ Malformed(sess[w].req.date)) =>
      LET r == sess[w].req
          out == sess[w].resp
      IN /\ out.status = 200
         /\ Len(out.habits) = Cardinality(habits)
         /\ {out.habits[i].id : i \in 1..Len(out.habits)} = CatalogIds
         /\ \A i \in 1..(Len(out.habits) - 1) :
              out.habits[i].id < out.habits[i + 1].id
         /\ \A i \in 1..Len(out.habits) :
              EntriesOf(ledger, r.user_id, out.habits[i].id, DateOf(r.date)) = {}
                => ~ out.habits[i].completed

\* C7's case: a day without entries has been read while the ledger holds
\* entries of other days.
UntouchedDayRead ==
  \E w \in Workers :
    /\ Finished(w)
    /\ sess[w].req.op = "read"
    /\ sess[w].resp.status = 200
    /\ RowsFor(ledger, sess[w].req.user_id, DateOf(sess[w].req.date)) = {}
    /\ ledger # {}

\* C8: an aggregate reports, for every catalog habit, total_days equal to
\* the window length (7 weekly, 30 monthly) and completed_days equal to the
\* number of dates of the window, end_date - (length - 1) to end_date, on
\* which the ledger holds a completed entry of the user and habit.
AggregateMatchesWindow ==
  \A w \in Workers :
    ( /\ Finished(w)
      /\ sess[w].req.op = "aggregate"
      /\ ~ Malformed(sess[w].req.date)
      /\ PeriodOf(sess[w].req.period) \in {"weekly", "monthly"} )
    => LET r == sess[w].req
           out == sess[w].resp
           end == DateOf(r.date)
           length == IF PeriodOf(r.period) = "weekly" THEN 7 ELSE 30
       IN /\ out.status = 200
          /\ out.period = PeriodOf(r.period)
          /\ {out.habits[i].id : i \in 1..Len(out.habits)} = CatalogIds
          /\ Len(out.habits) = Cardinality(habits)
          /\ \A i \in 1..Len(out.habits) :
               /\ out.habits[i].total_days = length
               /\ out.habits[i].completed_days
                    = Cardinality({d \in (end - (length - 1))..end :
                                     CompletedOn(ledger, r.user_id,
                                                 out.habits[i].id, d)})
               /\ out.habits[i].completed_days >= 0
               /\ out.habits[i].completed_days <= out.habits[i].total_days

\* C8's case: an aggregate has counted two completed days of a habit.
TwoDaysCounted ==
  \E w \in Workers :
    /\ Finished(w)
    /\ sess[w].req.op = "aggregate"
    /\ sess[w].resp.status = 200
    /\ \E i \in 1..Len(sess[w].resp.habits) :
         sess[w].resp.habits[i].completed_days = 2

\* C9: an aggregate with a period other than weekly or monthly or with a
\* malformed end_date, and a save with a missing or malformed date or
\* without a completions object, is answered with a 400, has sent no query
\* to the store and leaves the ledger as it was.
InvalidRequest(r) ==
  \/ /\ r.op = "aggregate"
     /\ Malformed(r.date) \/ PeriodOf(r.period) \notin {"weekly", "monthly"}
  \/ /\ r.op = "save"
     /\ ~ DateGiven(r.date) \/ Malformed(r.date) \/ r.completions.kind # "dict"
ValidationBeforeStore ==
  [][ \A w \in Workers :
        (sess[w].pc # "done" /\ sess'[w].pc = "done"
           /\ InvalidRequest(sess'[w].req)) =>
          /\ sess'[w].resp.status = 400
          /\ sess'[w].queries = 0
          /\ ledger' = ledger
    ]_vars

\* C9's case: with entries in the ledger, an aggregate for the period
\* "yearly" has been refused.
YearlyRefused ==
  \E w \in Workers :
    /\ Finished(w)
    /\ sess[w].req.op = "aggregate"
    /\ sess[w].req.period = PeriodText("yearly")
    /\ sess[w].resp.status = 400
    /\ ledger # {}

\* C10: the catalog never changes; no step removes a row; the rows change
\* only in the step that commits a save, and then only rows of that save's
\* user and date, for catalog habits, are added or modified; read and
\* aggregate change nothing.
FrameOfOperations ==
  [][ /\ habits' = habits
      /\ \A r \in ledger : \E q \in ledger' : RowId(q) = RowId(r)
      /\ \A w \in Workers : Reads(w) => ledger' = ledger
      /\ ledger' # ledger =>
           \E w \in Workers :
             /\ Commits(w)
             /\ \A r \in ledger :
                  (r.user_id # sess[w].req.user_id \/ r.date # sess[w].target_date)
                    => r \in ledger'
             /\ \A q \in ledger' \ ledger :
                  /\ q.user_id = sess[w].req.user_id
                  /\ q.date = sess[w].target_date
                  /\ q.habit_id \in CatalogIds
    ]_vars

\* C10's case: a save has been committed while the ledger held completed
\* entries of another day, which are still there.
SavedBesideOtherDay ==
  \E w \in Workers :
    /\ Finished(w)
    /\ sess[w].req.op = "save"
    /\ sess[w].resp.status = 200
    /\ RowsFor(ledger, sess[w].req.user_id, DateOf(sess[w].req.date)) # {}
    /\ \E r \in ledger :
         /\ r.completed
         /\ r.user_id # sess[w].req.user_id \/ r.date # DateOf(sess[w].req.date)

====
